---- MODULE Spec2Model ----
(***************************************************************************)
(* Model of monero-javascript's MoneroUtils (mergeTx, paymentIdsEqual,     *)
(* address validation, binary conversion, getLastTxPubKey), MoneroTxFilter *)
(* (constructor, accessors, meetsCriteria) and the single-item operations  *)
(* of MoneroDaemon.                                                        *)
(*                                                                         *)
(* Optional JavaScript values are modelled as sequences of length <= 1:    *)
(* Undefined is <<>> and a defined value v is <<v>>, so that `===` on two  *)
(* optional values is plain equality of the sequences.                     *)
(***************************************************************************)
EXTENDS Integers, Sequences, FiniteSets, TLC

VARIABLES
  txs,        \* mergeTx: the list of transactions merged so far
  calls,      \* mergeTx: hashes passed to mergeTx so far, in call order
  nextOid,    \* mergeTx: identity of the next transaction object created
  last,       \* mergeTx: record of the last mergeTx call
  pid1,       \* paymentIdsEqual: first argument
  pid2,       \* paymentIdsEqual: second argument
  pidPc,      \* paymentIdsEqual: "start" before the call, "done" after
  pidResult,  \* paymentIdsEqual: the value returned
  filter,     \* MoneroTxFilter: this.state of the filter (<<>> before new)
  fop,        \* MoneroTxFilter: record of the last call on the filter
  ready,      \* provider: LibraryUtils.getWasmModule() is defined
  live,       \* provider: addresses of the buffers allocated on its heap
  uop,        \* provider: record of the last address or conversion call
  dcalls,     \* MoneroDaemon: number of batch calls made so far
  dop,        \* MoneroDaemon: record of the last single-item call
  xop         \* getLastTxPubKey: record of the last call

mergeVars == <<txs, calls, nextOid, last>>
pidVars == <<pid1, pid2, pidPc, pidResult>>
filterVars == <<filter, fop>>
providerVars == <<ready, live, uop>>
daemonVars == <<dcalls, dop>>
extraVars == <<xop>>
vars ==
  <<txs, calls, nextOid, last, pid1, pid2, pidPc, pidResult, filter, fop,
    ready, live, uop, dcalls, dop, xop>>

Undefined == <<>>
Some(v) == <<v>>
IsDefined(x) == x # Undefined
Opt(S) == {Undefined} \cup {Some(v) : v \in S}

\* The sequences over S of length at most n.
SeqsUpTo(S, n) == UNION {[1..k -> S] : k \in 0..n}

Min(a, b) == IF a < b THEN a ELSE b
Max(a, b) == IF a > b THEN a ELSE b

(***************************************************************************)
(* MoneroUtils.mergeTx                                                     *)
(***************************************************************************)

\* Number of mergeTx calls explored.
MaxCalls == 3

Hashes == {"h1", "h2"}
Fees == {1, 2}

\* Transactions passed to mergeTx: an object identity and the fields the
\* merge reconciles.
NewTxs(oid) ==
  [oid : {oid}, hash : Opt(Hashes), fee : Opt(Fees), isConfirmed : Opt({TRUE})]

\* Field-level rule of MoneroTx.merge: adopt the incoming value when the
\* target's is unknown.
Reconcile(mine, theirs) == IF IsDefined(mine) THEN mine ELSE theirs

Conflicts(mine, theirs) == IsDefined(mine) /\ IsDefined(theirs) /\ mine # theirs

\* MoneroTx.merge(other): [tx |-> the target afterwards, err |-> outcome].
Merge(target, incoming) ==
  IF target.hash # incoming.hash
    THEN [tx |-> target, err |-> "IdentityMismatch"]
  ELSE IF Conflicts(target.fee, incoming.fee)
          \/ Conflicts(target.isConfirmed, incoming.isConfirmed)
    THEN [tx |-> target, err |-> "MergeConflict"]
  ELSE [tx |-> [target EXCEPT !.fee = Reconcile(target.fee, incoming.fee),
                              !.isConfirmed = Reconcile(target.isConfirmed,
                                                        incoming.isConfirmed)],
        err |-> "none"]

\* The loop of mergeTx from position i: the list afterwards, the positions
\* merge() was called on, and the error that escaped.
RECURSIVE MergeTxFrom(_, _, _)
MergeTxFrom(list, tx, i) ==
  IF i > Len(list)
    THEN [txs |-> Append(list, tx), merged |-> <<>>, err |-> "none"]
  ELSE IF list[i].hash = tx.hash
    THEN LET r == Merge(list[i], tx)
         IN  [txs |-> [list EXCEPT ![i] = r.tx], merged |-> <<i>>, err |-> r.err]
  ELSE MergeTxFrom(list, tx, i + 1)

\* Faulty variant: the `return` after merge() is missing, so tx is appended
\* too.
RECURSIVE MergeTxNoReturnFrom(_, _, _, _)
MergeTxNoReturnFrom(list, tx, i, merged) ==
  IF i > Len(list)
    THEN [txs |-> Append(list, tx), merged |-> merged, err |-> "none"]
  ELSE IF list[i].hash = tx.hash
    THEN LET r == Merge(list[i], tx)
         IN  IF r.err # "none"
               THEN [txs |-> list, merged |-> Append(merged, i), err |-> r.err]
               ELSE MergeTxNoReturnFrom([list EXCEPT ![i] = r.tx], tx, i + 1,
                                        Append(merged, i))
  ELSE MergeTxNoReturnFrom(list, tx, i + 1, merged)

mergeTx_NoReturn(list, tx) == MergeTxNoReturnFrom(list, tx, 1, <<>>)

\* Faulty variant: the hash comparison is made on the fee instead of the hash.
mergeTx_WrongKey(list, tx) ==
  LET hits == {i \in 1..Len(list) : list[i].fee = tx.fee}
  IN  IF hits = {}
        THEN [txs |-> Append(list, tx), merged |-> <<>>, err |-> "none"]
        ELSE LET i == CHOOSE j \in hits : \A k \in hits : j <= k
                 r == Merge(list[i], tx)
             IN  [txs |-> [list EXCEPT ![i] = r.tx], merged |-> <<i>>,
                  err |-> r.err]

\* Faulty variant: a transaction that is not found is put at the front
\* (unshift).
mergeTx_Unshift(list, tx) ==
  LET r == MergeTxFrom(list, tx, 1)
  IN  IF r.merged = <<>> THEN [r EXCEPT !.txs = <<tx>> \o list] ELSE r

\* Faulty variant: a transaction without a hash equals no entry.
mergeTx_UndefinedNeverEqual(list, tx) ==
  IF IsDefined(tx.hash) THEN MergeTxFrom(list, tx, 1)
  ELSE [txs |-> Append(list, tx), merged |-> <<>>, err |-> "none"]

mergeTx(list, tx) == MergeTxFrom(list, tx, 1)

InitMerge ==
  /\ txs = <<>>
  /\ calls = <<>>
  /\ nextOid = 1
  /\ last = [op |-> "none", pre |-> <<>>, tx |-> <<>>, merged |-> <<>>,
             err |-> "none"]

DoMergeTx(tx) ==
  LET r == mergeTx(txs, tx)
  IN  /\ txs' = r.txs
      /\ calls' = Append(calls, tx.hash)
      /\ last' = [op |-> "mergeTx", pre |-> txs, tx |-> <<tx>>,
                  merged |-> r.merged, err |-> r.err]

\* mergeTx(txs, tx) with a transaction object the caller has just built.
MergeTxNew ==
  /\ Len(calls) < MaxCalls
  /\ \E tx \in NewTxs(nextOid) : DoMergeTx(tx)
  /\ nextOid' = nextOid + 1
  /\ UNCHANGED <<pidVars, filterVars,
               providerVars, daemonVars, extraVars>>

\* mergeTx(txs, tx) with an object that is already an entry of the list.
MergeTxExisting ==
  /\ Len(calls) < MaxCalls
  /\ \E i \in 1..Len(txs) : DoMergeTx(txs[i])
  /\ UNCHANGED <<nextOid, pidVars, filterVars,
               providerVars, daemonVars, extraVars>>

(***************************************************************************)
(* MoneroUtils.paymentIdsEqual                                             *)
(***************************************************************************)

\* Longest payment id enumerated exhaustively.
MaxPidLen == 3

PidChars == {"0", "3", "f"}

RECURSIVE StringsOfLen(_)
StringsOfLen(n) ==
  IF n = 0 THEN {<<>>}
  ELSE {Append(s, c) : s \in StringsOfLen(n - 1), c \in PidChars}

RECURSIVE Zeros(_)
Zeros(n) == IF n = 0 THEN <<>> ELSE Append(Zeros(n - 1), "0")

\* The payment ids of the documentation comment of paymentIdsEqual.
ShortPid ==
  <<"0", "3", "2", "8", "4", "e", "4", "1", "c", "3", "4", "2", "f", "0", "3", "2">>
LongPid == ShortPid \o Zeros(48)
OtherLongPid == [ShortPid EXCEPT ![16] = "3"] \o Zeros(48)

PaymentIds ==
  UNION {StringsOfLen(n) : n \in 0..MaxPidLen}
    \cup {ShortPid, LongPid, OtherLongPid}

\* The loop of paymentIdsEqual from index i (0-based, as in the code).
RECURSIVE PaymentIdsEqualFrom(_, _, _)
PaymentIdsEqualFrom(p1, p2, i) ==
  IF i >= Max(Len(p1), Len(p2)) THEN TRUE
  ELSE IF i < Len(p1) /\ i < Len(p2) /\ p1[i + 1] # p2[i + 1] THEN FALSE
  ELSE IF i >= Len(p1) /\ p2[i + 1] # "0" THEN FALSE
  ELSE IF i >= Len(p2) /\ p1[i + 1] # "0" THEN FALSE
  ELSE PaymentIdsEqualFrom(p1, p2, i + 1)

\* Faulty variant: only the tail of the second id is required to be zeros.
RECURSIVE PaymentIdsEqualOneSidedFrom(_, _, _)
PaymentIdsEqualOneSidedFrom(p1, p2, i) ==
  IF i >= Max(Len(p1), Len(p2)) THEN TRUE
  ELSE IF i < Len(p1) /\ i < Len(p2) /\ p1[i + 1] # p2[i + 1] THEN FALSE
  ELSE IF i >= Len(p1) /\ p2[i + 1] # "0" THEN FALSE
  ELSE PaymentIdsEqualOneSidedFrom(p1, p2, i + 1)

paymentIdsEqual_OneSided(p1, p2) == PaymentIdsEqualOneSidedFrom(p1, p2, 0)

paymentIdsEqual(p1, p2) == PaymentIdsEqualFrom(p1, p2, 0)

InitPaymentId ==
  /\ pid1 \in PaymentIds
  /\ pid2 \in PaymentIds
  /\ pidPc = "start"
  /\ pidResult = FALSE

PaymentIdsEqualCall ==
  /\ pidPc = "start"
  /\ pidResult' = paymentIdsEqual(pid1, pid2)
  /\ pidPc' = "done"
  /\ UNCHANGED <<pid1, pid2, mergeVars, filterVars,
               providerVars, daemonVars, extraVars>>

(***************************************************************************)
(* MoneroTxFilter                                                          *)
(***************************************************************************)

\* Most constraints set on a filter that is constructed.
MaxConstraints == 2

\* Most fields defined on a candidate transaction.
MaxTxFields == 2

TxIdValues == {"a", "b"}
PaymentIdValues == {"p", "q"}
Heights == {0, 1}

\* Transfers of a transaction and the criteria of a MoneroTransferFilter.
Transfer0 == [accountIndex |-> 0]
Transfer1 == [accountIndex |-> 1]
AnyTransfer == [class |-> "MoneroTransferFilter", accountIndex |-> Undefined]
Account0Only == [class |-> "MoneroTransferFilter", accountIndex |-> Some(0)]

\* tx.getBlock(): no header, a header without height, a header with height.
Blocks ==
  {[header |-> Undefined], [header |-> Some([height |-> Undefined])]}
    \cup {[header |-> Some([height |-> Some(h)])] : h \in Heights}

\* The fields of a transaction that the template clause compares.
ComparedFields ==
  <<"id", "paymentId", "isConfirmed", "inTxPool", "doNotRelay", "isRelayed",
    "isFailed", "isCoinbase">>

\* The fields of a MoneroTxWallet that meetsCriteria reads.
TxFields ==
  ComparedFields \o <<"outgoingTransfer", "incomingTransfers", "block">>

Range(s) == {s[i] : i \in 1..Len(s)}

TxFieldValues(f) ==
  CASE f = "id" -> TxIdValues
    [] f = "paymentId" -> PaymentIdValues
    [] f = "outgoingTransfer" -> {Transfer0, Transfer1}
    [] f = "incomingTransfers" ->
         {<<>>, <<Transfer0>>, <<Transfer1>>, <<Transfer1, Transfer0>>}
    [] f = "block" -> Blocks
    [] OTHER -> BOOLEAN

\* The keys of the state object given to the constructor, beside tx.
ConstraintKeys ==
  <<"txIds", "hasPaymentId", "paymentIds", "height", "minHeight", "maxHeight",
    "hasOutgoingTransfer", "hasIncomingTransfers", "transferFilter">>

ConstraintValues(k) ==
  CASE k = "txIds" -> {{}, {Some("a")}}
    [] k = "paymentIds" -> {{}, {Some("p")}}
    [] k \in {"height", "minHeight", "maxHeight"} -> Heights
    [] k = "transferFilter" -> {AnyTransfer, Account0Only}
    [] OTHER -> BOOLEAN

\* Values a template field is given when a filter is built.
TemplateValues(f) ==
  CASE f = "id" -> {"a"}
    [] f = "paymentId" -> {"p"}
    [] f = "outgoingTransfer" -> {Transfer0}
    [] f = "incomingTransfers" -> {<<Transfer0>>}
    [] f = "block" -> {[header |-> Some([height |-> Some(1)])]}
    [] OTHER -> BOOLEAN

SlotValues(kind, key) ==
  CASE kind = "candidate" -> TxFieldValues(key)
    [] kind = "template" -> TemplateValues(key)
    [] OTHER -> ConstraintValues(key)

\* Functions on the first i keys of `keys` with at most k defined values.
RECURSIVE Sparse(_, _, _, _)
Sparse(kind, keys, i, k) ==
  IF i = 0 THEN {[x \in {} |-> Undefined]}
  ELSE {(keys[i] :> Undefined) @@ g : g \in Sparse(kind, keys, i - 1, k)}
         \cup (IF k = 0 THEN {}
               ELSE {(keys[i] :> Some(v)) @@ g :
                       v \in SlotValues(kind, keys[i]),
                       g \in Sparse(kind, keys, i - 1, k - 1)})

NumDefined(r) == Cardinality({k \in DOMAIN r : IsDefined(r[k])})

EmptyTx == [f \in Range(TxFields) |-> Undefined]

\* Candidate transactions handed to meetsCriteria.
CandidateFields == Sparse("candidate", TxFields, Len(TxFields), MaxTxFields)

AsEntity(fields) == [class |-> "MoneroTxWallet", f |-> fields]
AsObject(fields) == [class |-> "Object", f |-> fields]

Candidates == {AsEntity(c) : c \in CandidateFields} \cup {AsObject(EmptyTx)}

\* new MoneroTxWallet(json): the entity with the fields of the plain record.
NewMoneroTxWallet(fields) == AsEntity(fields)

\* new MoneroTransferFilter(json): the filter with the criteria of the record.
NewMoneroTransferFilter(json) == [json EXCEPT !.class = "MoneroTransferFilter"]

\* States given to the constructor: the template fields (as keys of the state
\* itself, or of state.tx) and the other constraints.
CtorStates ==
  {s \in [tmpl : Sparse("template", TxFields, Len(TxFields), MaxConstraints),
          cons : Sparse("constraint", ConstraintKeys, Len(ConstraintKeys),
                        MaxConstraints)] :
     NumDefined(s.tmpl) + NumDefined(s.cons) <= MaxConstraints}

\* How state.tx is given: not at all (the template fields are keys of the
\* state), as a MoneroTxWallet, or as a plain object.
TxKinds == {"absent", "MoneroTxWallet", "Object"}
TransferFilterKinds == {"MoneroTransferFilter", "Object"}

\* state.transferFilter as the caller gives it.
GivenTransferFilter(s, tfKind) ==
  IF IsDefined(s.cons.transferFilter)
    THEN Some([s.cons.transferFilter[1] EXCEPT !.class = tfKind])
    ELSE Undefined

\* state.tx as the caller gives it.
GivenTx(s, txKind) ==
  IF txKind = "absent" THEN Undefined
  ELSE IF txKind = "MoneroTxWallet" THEN Some(AsEntity(s.tmpl))
  ELSE Some(AsObject(s.tmpl))

\* Faulty variant: a plain object given as state.tx is kept as it is.
Constructor_NoDeserialize(s, txKind, tfKind) ==
  [c \in Range(ConstraintKeys) \cup {"tx"} |->
     IF c = "tx"
       THEN (IF txKind = "absent" THEN Some(NewMoneroTxWallet(s.tmpl))
             ELSE GivenTx(s, txKind))
     ELSE IF c = "transferFilter" THEN GivenTransferFilter(s, tfKind)
     ELSE s.cons[c]]

\* The constructor: this.state afterwards.
Constructor(s, txKind, tfKind) ==
  LET tx0 == GivenTx(s, txKind)
      tf0 == GivenTransferFilter(s, tfKind)
      \* if (!state.tx) state.tx = new MoneroTxWallet(state)
      tx1 == IF ~IsDefined(tx0) THEN Some(NewMoneroTxWallet(s.tmpl)) ELSE tx0
      \* deserialize if necessary
      tf1 == IF IsDefined(tf0) /\ tf0[1].class # "MoneroTransferFilter"
               THEN Some(NewMoneroTransferFilter(tf0[1]))
               ELSE tf0
      tx2 == IF tx1[1].class # "MoneroTxWallet"
               THEN Some(NewMoneroTxWallet(tx1[1].f))
               ELSE tx1
  IN  [c \in Range(ConstraintKeys) \cup {"tx"} |->
         IF c = "tx" THEN tx2
         ELSE IF c = "transferFilter" THEN tf1
         ELSE s.cons[c]]

\* Number of constraints set on a filter.
NumConstraints(f) ==
  Cardinality({c \in Range(ConstraintKeys) : IsDefined(f[c])})
    + (IF IsDefined(f.tx) THEN NumDefined(f.tx[1].f) ELSE 0)

\* MoneroTransferFilter.meetsCriteria(transfer): the filter's template
\* transfer matches when each of its set fields equals the transfer's.
TransferMeetsCriteria(tf, transfer) ==
  ~IsDefined(tf.accountIndex) \/ tf.accountIndex = Some(transfer.accountIndex)

\* One line of the template clause: the template's field is set and the
\* candidate's is not identical to it.
Differs(template, tx, field) ==
  IsDefined(template[field]) /\ template[field] # tx[field]

\* Faulty variant: a candidate whose field is undefined is let through.
TemplateClause_SkipsUndefined(f, tx) ==
  IF ~IsDefined(f.tx) THEN "pass"
  ELSE IF f.tx[1].class # "MoneroTxWallet" THEN "TypeError"
  ELSE IF \E i \in 1..Len(ComparedFields) :
            /\ Differs(f.tx[1].f, tx, ComparedFields[i])
            /\ IsDefined(tx[ComparedFields[i]])
    THEN "reject"
  ELSE "pass"

\* "filter on tx": each clause yields "pass", "reject" (return false) or the
\* error thrown.
TemplateClause(f, tx) ==
  IF ~IsDefined(f.tx) THEN "pass"
  ELSE IF f.tx[1].class # "MoneroTxWallet" THEN "TypeError"
  ELSE LET t == f.tx[1].f
       IN  IF \/ Differs(t, tx, "id")
              \/ Differs(t, tx, "paymentId")
              \/ Differs(t, tx, "isConfirmed")
              \/ Differs(t, tx, "inTxPool")
              \/ Differs(t, tx, "doNotRelay")
              \/ Differs(t, tx, "isRelayed")
              \/ Differs(t, tx, "isFailed")
              \/ Differs(t, tx, "isCoinbase")
             THEN "reject"
             ELSE "pass"

\* The loop over the incoming transfers from position i.
RECURSIVE IncomingMatchFrom(_, _, _)
IncomingMatchFrom(tf, incoming, i) ==
  IF i > Len(incoming) THEN FALSE
  ELSE IF TransferMeetsCriteria(tf, incoming[i]) THEN TRUE
  ELSE IncomingMatchFrom(tf, incoming, i + 1)

\* Faulty variant: the incoming transfers are looked at only when the
\* transaction has no outgoing transfer.
TransferClause_OutgoingShadows(f, tx) ==
  IF ~IsDefined(f.transferFilter) THEN "pass"
  ELSE LET tf == f.transferFilter[1]
           called == IsDefined(tx.outgoingTransfer)
                       \/ (IsDefined(tx.incomingTransfers)
                             /\ Len(tx.incomingTransfers[1]) > 0)
           matchFound ==
             IF IsDefined(tx.outgoingTransfer)
               THEN TransferMeetsCriteria(tf, tx.outgoingTransfer[1])
             ELSE IF IsDefined(tx.incomingTransfers)
               THEN IncomingMatchFrom(tf, tx.incomingTransfers[1], 1)
             ELSE FALSE
       IN  IF called /\ tf.class # "MoneroTransferFilter" THEN "TypeError"
           ELSE IF ~matchFound THEN "reject"
           ELSE "pass"

\* "at least one transfer must meet transfer filter if defined"
TransferClause(f, tx) ==
  IF ~IsDefined(f.transferFilter) THEN "pass"
  ELSE LET tf == f.transferFilter[1]
           \* whether transferFilter.meetsCriteria is called at all
           called == IsDefined(tx.outgoingTransfer)
                       \/ (IsDefined(tx.incomingTransfers)
                             /\ Len(tx.incomingTransfers[1]) > 0)
           matchFound ==
             IF IsDefined(tx.outgoingTransfer)
                  /\ TransferMeetsCriteria(tf, tx.outgoingTransfer[1])
               THEN TRUE
             ELSE IF IsDefined(tx.incomingTransfers)
               THEN IncomingMatchFrom(tf, tx.incomingTransfers[1], 1)
             ELSE FALSE
       IN  IF called /\ tf.class # "MoneroTransferFilter" THEN "TypeError"
           ELSE IF ~matchFound THEN "reject"
           ELSE "pass"

HasIncoming(tx) ==
  IsDefined(tx.incomingTransfers) /\ Len(tx.incomingTransfers[1]) > 0

\* Faulty variant: an empty list of incoming transfers counts as having some.
PresenceClause_EmptyCounts(f, tx) ==
  IF \/ /\ IsDefined(f.hasPaymentId)
        /\ f.hasPaymentId[1] # IsDefined(tx.paymentId)
     \/ /\ IsDefined(f.hasOutgoingTransfer)
        /\ f.hasOutgoingTransfer[1] # IsDefined(tx.outgoingTransfer)
     \/ /\ IsDefined(f.hasIncomingTransfers)
        /\ f.hasIncomingTransfers[1] # IsDefined(tx.incomingTransfers)
    THEN "reject"
    ELSE "pass"

\* Faulty variant: an absent hasPaymentId is read as false.
PresenceClause_AbsentIsFalse(f, tx) ==
  IF \/ /\ ~IsDefined(f.hasPaymentId)
        /\ IsDefined(tx.paymentId)
     \/ /\ IsDefined(f.hasPaymentId)
        /\ f.hasPaymentId[1] # IsDefined(tx.paymentId)
     \/ /\ IsDefined(f.hasOutgoingTransfer)
        /\ f.hasOutgoingTransfer[1] # IsDefined(tx.outgoingTransfer)
     \/ /\ IsDefined(f.hasIncomingTransfers)
        /\ f.hasIncomingTransfers[1] # HasIncoming(tx)
    THEN "reject"
    ELSE "pass"

\* "filter on having a payment id", "... an outgoing transfer",
\* "... incoming transfers"
PresenceClause(f, tx) ==
  IF /\ IsDefined(f.hasPaymentId)
     /\ \/ f.hasPaymentId[1] /\ ~IsDefined(tx.paymentId)
        \/ ~f.hasPaymentId[1] /\ IsDefined(tx.paymentId)
    THEN "reject"
  ELSE IF /\ IsDefined(f.hasOutgoingTransfer)
          /\ \/ f.hasOutgoingTransfer[1] /\ ~IsDefined(tx.outgoingTransfer)
             \/ ~f.hasOutgoingTransfer[1] /\ IsDefined(tx.outgoingTransfer)
    THEN "reject"
  ELSE IF /\ IsDefined(f.hasIncomingTransfers)
          /\ \/ /\ f.hasIncomingTransfers[1]
                /\ (~IsDefined(tx.incomingTransfers)
                      \/ Len(tx.incomingTransfers[1]) = 0)
             \/ /\ ~f.hasIncomingTransfers[1]
                /\ IsDefined(tx.incomingTransfers)
                /\ Len(tx.incomingTransfers[1]) > 0
    THEN "reject"
  ELSE "pass"

\* The height of the candidate, read from its block's header.
TxHeight(tx) ==
  IF ~IsDefined(tx.block) \/ ~IsDefined(tx.block[1].header)
    THEN Undefined
    ELSE tx.block[1].header[1].height

\* Faulty variant: the bounds are skipped when the height is unknown.
RemainingClause_UnknownPasses(f, tx) ==
  LET height == TxHeight(tx)
  IN  IF IsDefined(f.txIds) /\ tx.id \notin f.txIds[1] THEN "reject"
      ELSE IF IsDefined(f.paymentIds) /\ tx.paymentId \notin f.paymentIds[1]
        THEN "reject"
      ELSE IF IsDefined(f.height) /\ height # f.height THEN "reject"
      ELSE IF IsDefined(f.minHeight)
              /\ IsDefined(height) /\ height[1] < f.minHeight[1]
        THEN "reject"
      ELSE IF IsDefined(f.maxHeight)
              /\ IsDefined(height) /\ height[1] > f.maxHeight[1]
        THEN "reject"
      ELSE "pass"

\* Faulty variant: an empty txIds or paymentIds is taken as unset.
RemainingClause_EmptyIsUnset(f, tx) ==
  LET height == TxHeight(tx)
  IN  IF IsDefined(f.txIds) /\ f.txIds[1] # {} /\ tx.id \notin f.txIds[1]
        THEN "reject"
      ELSE IF IsDefined(f.paymentIds) /\ f.paymentIds[1] # {}
              /\ tx.paymentId \notin f.paymentIds[1]
        THEN "reject"
      ELSE IF IsDefined(f.height) /\ height # f.height THEN "reject"
      ELSE IF IsDefined(f.minHeight)
              /\ (~IsDefined(height) \/ height[1] < f.minHeight[1])
        THEN "reject"
      ELSE IF IsDefined(f.maxHeight)
              /\ (~IsDefined(height) \/ height[1] > f.maxHeight[1])
        THEN "reject"
      ELSE "pass"

\* "filter on remaining fields"
RemainingClause(f, tx) ==
  LET height == TxHeight(tx)
  IN  IF IsDefined(f.txIds) /\ tx.id \notin f.txIds[1] THEN "reject"
      ELSE IF IsDefined(f.paymentIds) /\ tx.paymentId \notin f.paymentIds[1]
        THEN "reject"
      ELSE IF IsDefined(f.height) /\ height # f.height THEN "reject"
      ELSE IF IsDefined(f.minHeight)
              /\ (~IsDefined(height) \/ height[1] < f.minHeight[1])
        THEN "reject"
      ELSE IF IsDefined(f.maxHeight)
              /\ (~IsDefined(height) \/ height[1] > f.maxHeight[1])
        THEN "reject"
      ELSE "pass"

Returns(value) == [ret |-> value, err |-> "none"]
Throws(error) == [ret |-> FALSE, err |-> error]

\* What a clause's outcome makes of the call, `rest` being the outcome of
\* the clauses after it.
Then(outcome, rest) ==
  IF outcome = "pass" THEN rest
  ELSE IF outcome = "reject" THEN Returns(FALSE)
  ELSE Throws(outcome)

\* meetsCriteria(tx): the value returned or the error thrown.  The filter is
\* no MoneroTxWallet, so `this === tx` never holds past the assertion.
MeetsCriteria(f, cand) ==
  IF cand.class # "MoneroTxWallet" THEN Throws("AssertionError")
  ELSE Then(TemplateClause(f, cand.f),
       Then(TransferClause(f, cand.f),
       Then(PresenceClause(f, cand.f),
       Then(RemainingClause(f, cand.f),
            Returns(TRUE)))))

InitFilter ==
  /\ filter = <<>>
  /\ fop = [op |-> "none", arg |-> <<>>, ret |-> FALSE, err |-> "none"]

\* new MoneroTxFilter(state)
NewFilter ==
  /\ fop.op = "none"
  /\ \E s \in CtorStates, txKind \in TxKinds, tfKind \in TransferFilterKinds :
       /\ filter' = Constructor(s, txKind, tfKind)
       /\ fop' = [op |-> "new",
                  arg |-> [tx |-> GivenTx(s, txKind),
                           transferFilter |-> GivenTransferFilter(s, tfKind)],
                  ret |-> FALSE, err |-> "none"]
  /\ UNCHANGED <<mergeVars, pidVars,
               providerVars, daemonVars, extraVars>>

\* The filter exists and has not been evaluated yet; meetsCriteria changes
\* nothing of the filter, so a call after it reaches no further filter.
Building == fop.op \in {"new", "setTx", "setTransferFilter"}

\* Values given to setTx: nothing, a template entity, a plain object.
SetTxValues ==
  {Undefined, Some(AsObject(EmptyTx))}
    \cup {Some(AsEntity(t)) :
            t \in Sparse("template", TxFields, Len(TxFields), MaxConstraints)}

\* setTx(tx)
SetTx ==
  /\ Building
  /\ \E v \in SetTxValues :
       /\ filter' = [filter EXCEPT !.tx = v]
       /\ NumConstraints(filter') <= MaxConstraints
       /\ fop' = [op |-> "setTx", arg |-> v, ret |-> "this", err |-> "none"]
  /\ UNCHANGED <<mergeVars, pidVars,
               providerVars, daemonVars, extraVars>>

SetTransferFilterValues ==
  {Undefined} \cup {Some([tf EXCEPT !.class = k]) :
                      tf \in {AnyTransfer, Account0Only},
                      k \in TransferFilterKinds}

\* setTransferFilter(transferFilter)
SetTransferFilter ==
  /\ Building
  /\ \E v \in SetTransferFilterValues :
       /\ filter' = [filter EXCEPT !.transferFilter = v]
       /\ NumConstraints(filter') <= MaxConstraints
       /\ fop' = [op |-> "setTransferFilter", arg |-> v, ret |-> "this",
                  err |-> "none"]
  /\ UNCHANGED <<mergeVars, pidVars,
               providerVars, daemonVars, extraVars>>

\* meetsCriteria(tx)
MeetsCriteriaCall ==
  /\ Building
  /\ \E cand \in Candidates :
       LET r == MeetsCriteria(filter, cand)
       IN  fop' = [op |-> "meetsCriteria", arg |-> cand, ret |-> r.ret,
                   err |-> r.err]
  /\ UNCHANGED <<filter, mergeVars, pidVars,
               providerVars, daemonVars, extraVars>>

\* A getter of the filter: `return this.state.<key>`.
Getter(f, key) == f[key]

\* A setter of the filter: `this.state.<key> = value; return this`.
Setter(f, key, value) ==
  [state |-> [f EXCEPT ![key] = value], ret |-> "this", err |-> "none"]

\* setHasPaymentId() declares no parameter; its body reads hasPaymentId,
\* a name that is declared nowhere, so the assignment never happens.
setHasPaymentId(f, value) ==
  [state |-> f, ret |-> "none", err |-> "ReferenceError"]

\* The call op(value) on the filter with outcome r.
SetterCall(op, value, r) ==
  /\ Building
  /\ filter' = r.state
  /\ NumConstraints(filter') <= MaxConstraints
  /\ fop' = [op |-> op, arg |-> value, ret |-> r.ret, err |-> r.err]
  /\ UNCHANGED <<mergeVars, pidVars, providerVars, daemonVars, extraVars>>

\* setTxIds(txIds)
SetTxIds ==
  \E v \in Opt(ConstraintValues("txIds")) :
    SetterCall("setTxIds", v, Setter(filter, "txIds", v))

\* setHasPaymentId(hasPaymentId)
SetHasPaymentId ==
  \E v \in Opt(ConstraintValues("hasPaymentId")) :
    SetterCall("setHasPaymentId", v, setHasPaymentId(filter, v))

\* setPaymentIds(paymentIds)
SetPaymentIds ==
  \E v \in Opt(ConstraintValues("paymentIds")) :
    SetterCall("setPaymentIds", v, Setter(filter, "paymentIds", v))

\* setHeight(height)
SetHeight ==
  \E v \in Opt(ConstraintValues("height")) :
    SetterCall("setHeight", v, Setter(filter, "height", v))

\* setMinHeight(minHeight)
SetMinHeight ==
  \E v \in Opt(ConstraintValues("minHeight")) :
    SetterCall("setMinHeight", v, Setter(filter, "minHeight", v))

\* setMaxHeight(maxHeight)
SetMaxHeight ==
  \E v \in Opt(ConstraintValues("maxHeight")) :
    SetterCall("setMaxHeight", v, Setter(filter, "maxHeight", v))

\* setHasOutgoingTransfer(hasOutgoingTransfer)
SetHasOutgoingTransfer ==
  \E v \in Opt(ConstraintValues("hasOutgoingTransfer")) :
    SetterCall("setHasOutgoingTransfer", v,
               Setter(filter, "hasOutgoingTransfer", v))

\* setHasIncomingTransfers(hasIncomingTransfers)
SetHasIncomingTransfers ==
  \E v \in Opt(ConstraintValues("hasIncomingTransfers")) :
    SetterCall("setHasIncomingTransfers", v,
               Setter(filter, "hasIncomingTransfers", v))

(***************************************************************************)
(* MoneroUtils address validation and binary conversion through the        *)
(* provider module (LibraryUtils.getWasmModule())                          *)
(***************************************************************************)

\* Buffers the provider heap can hold at once.
MaxAllocs == 2

\* Blocks in one provider answer, and transactions of one block.
MaxBlocks == 2
MaxTxsPerBlock == 2

\* A JavaScript value given as an address: a string (its characters) or a
\* value of another type.
Str(chars) == [type |-> "string", chars |-> chars]
NotAString == [type |-> "number", chars |-> <<>>]

\* Of the characters used here "4" and "9" are base-58 digits, "0" is not.
Base58Alphabet == {"4", "9"}

Addresses ==
  {NotAString, Str(<<>>), Str(<<"0">>), Str(<<"4">>), Str(<<"9">>),
   Str(<<"4", "9">>)}

\* Network types given by callers: omitted, mainnet, testnet, an unknown one.
NetworkTypeArgs == Opt({0, 1, 7})

\* GenUtils.isBase58(str)
isBase58(chars) == \A i \in 1..Len(chars) : chars[i] \in Base58Alphabet

\* MoneroNetworkType.validate(networkType): TRUE when it returns, FALSE when
\* it throws.
NetworkTypeValidate(networkType) == networkType \in {Some(0), Some(1), Some(2)}

\* The provider's validate_address: the error message, "" for a valid
\* address.  <<"4">> is an address of network 0 and <<"9">> one of network 1.
validate_address(chars, networkType) ==
  IF \/ chars = <<"4">> /\ networkType = Some(0)
     \/ chars = <<"9">> /\ networkType = Some(1)
  THEN ""
  ELSE "Invalid address"

\* One call into the provider module or one access of its heap.
Ev(call, ptr) == [call |-> call, ptr |-> ptr]

\* Outcome of an operation: the error thrown ("none" when it returns), the
\* value returned, the provider calls it made and the buffers left allocated.
Failed(err, trace, heap) ==
  [err |-> err, ret |-> Undefined, trace |-> trace, live |-> heap]

Returned(ret, trace, heap) ==
  [err |-> "none", ret |-> ret, trace |-> trace, live |-> heap]

\* Faulty variant: the provider is called without checking that it is loaded.
validateAddress_NoReadyCheck(rdy, heap, address, networkType) ==
  IF address.type # "string" \/ Len(address.chars) = 0
       \/ ~isBase58(address.chars)
  THEN Failed("AssertionError", <<>>, heap)
  ELSE IF ~NetworkTypeValidate(networkType)
  THEN Failed("InvalidNetworkType", <<>>, heap)
  ELSE IF validate_address(address.chars, networkType) # ""
  THEN Failed("Error", <<Ev("validate_address", 0)>>, heap)
  ELSE Returned(Undefined, <<Ev("validate_address", 0)>>, heap)

\* validateAddress(address, networkType)
validateAddress(rdy, heap, address, networkType) ==
  IF address.type # "string" THEN Failed("AssertionError", <<>>, heap)
  ELSE IF ~(Len(address.chars) > 0) THEN Failed("AssertionError", <<>>, heap)
  ELSE IF ~isBase58(address.chars) THEN Failed("AssertionError", <<>>, heap)
  ELSE IF ~NetworkTypeValidate(networkType)
  THEN Failed("InvalidNetworkType", <<>>, heap)
  ELSE IF ~rdy THEN Failed("ProviderUnavailable", <<>>, heap)
  ELSE IF validate_address(address.chars, networkType) # ""
  THEN Failed("Error", <<Ev("validate_address", 0)>>, heap)
  ELSE Returned(Undefined, <<Ev("validate_address", 0)>>, heap)

\* isValidAddress(address, networkType): validateAddress is called with the
\* address alone, so its networkType parameter is undefined.
isValidAddress(rdy, heap, address, networkType) ==
  LET r == validateAddress(rdy, heap, address, Undefined)
  IN  Returned(Some(r.err = "none"), r.trace, r.live)

\* _malloc: the lowest address not in use.
Malloc(heap) ==
  CHOOSE p \in 1..MaxAllocs :
    p \notin heap /\ \A q \in 1..(p - 1) : q \in heap

\* _free
Free(heap, ptr) == heap \ {ptr}

\* Structured values given to jsonToBinary and the bytes the provider
\* produces for them.
Jsons == {"j1", "j2"}
ProviderBinary(json) == IF json = "j1" THEN <<1>> ELSE <<2, 3>>

\* What malloc_binary_from_json does: it returns a description of the
\* buffer it allocated, returns text that is no JSON, or throws.
MallocOutcomes == {"returns", "garbage", "throws"}

\* jsonToBinary(json)
jsonToBinary(rdy, heap, json, out) ==
  IF ~rdy THEN Failed("ProviderUnavailable", <<>>, heap)
  ELSE IF out = "throws"
  THEN Failed("ProviderError", <<Ev("malloc_binary_from_json", 0)>>, heap)
  ELSE IF out = "garbage"
  THEN Failed("SyntaxError", <<Ev("malloc_binary_from_json", 0)>>, heap)
  ELSE LET ptr == Malloc(heap)
           view == ProviderBinary(json)
           reads == [i \in 1..Len(view) |-> Ev("read", ptr)]
       IN  Returned(Some(view),
                    <<Ev("malloc_binary_from_json", ptr)>> \o reads
                      \o <<Ev("_free", ptr)>>,
                    Free(heap \cup {ptr}, ptr))

\* A Uint8Array: its length and the length of the ArrayBuffer it is a view
\* of (a view can be shorter than its buffer).
Uint8Arrays ==
  {[length |-> 1, bufferLength |-> 1], [length |-> 2, bufferLength |-> 2],
   [length |-> 1, bufferLength |-> 2]}

\* byteOffset of new Uint8Array(buffer, ptr, length)
ByteOffset(ptr) == ptr

\* The part binaryToJson and binaryBlocksToJson share: allocate a buffer,
\* copy the bytes into it, call the provider's conversion fn, free the
\* buffer.  throws: the provider's conversion throws.
CallWithBuffer(rdy, heap, uint8arr, fn, throws) ==
  IF ~rdy THEN Failed("ProviderUnavailable", <<>>, heap)
  ELSE LET ptr == Malloc(heap)
           heap1 == heap \cup {ptr}
           t1 == <<Ev("_malloc", ptr)>>
           t2 == t1 \o <<Ev("write", ptr), Ev(fn, ptr)>>
       IN  IF ptr # ByteOffset(ptr) THEN Failed("Error", t1, heap1)
           ELSE IF uint8arr.bufferLength > uint8arr.length
           THEN Failed("RangeError", t1, heap1)
           ELSE IF throws THEN Failed("ProviderError", t2, heap1)
           ELSE Returned(Undefined, t2 \o <<Ev("_free", ptr)>>,
                         Free(heap1, ptr))

\* Text is a sequence of tokens: braces, commas and member tokens.
Separators == {",", "{", "}"}

\* JSON.parse accepts the text: "{", members separated by ",", "}".
IsJsonObject(s) ==
  /\ Len(s) >= 2
  /\ s[1] = "{"
  /\ s[Len(s)] = "}"
  /\ LET n == Len(s) - 2
     IN  /\ n = 0 \/ n % 2 = 1
         /\ \A i \in 1..n :
              IF i % 2 = 1 THEN s[i + 1] \notin Separators ELSE s[i + 1] = ","

\* JSON.parse(s) of an accepted text: the object's members, in order.
JsonParse(s) == [members |-> [i \in 1..((Len(s) - 1) \div 2) |-> s[2 * i]]]

\* String.prototype.replace(from, to) with a string pattern: the first
\* occurrence only.
ReplaceFirst(s, from, to) ==
  IF \E i \in 1..Len(s) : s[i] = from
  THEN LET k == CHOOSE i \in 1..Len(s) :
                  s[i] = from /\ \A j \in 1..(i - 1) : s[j] # from
       IN  [s EXCEPT ![k] = to]
  ELSE s

\* What binary_to_json does: it returns a text or throws.
JsonStrs == {<<"{", "a", "}">>, <<"{", "a", ",", "b", "}">>, <<"a">>}

ToJsonOutcomes ==
  [kind : {"returns"}, str : JsonStrs] \cup {[kind |-> "throws", str |-> <<>>]}

\* binaryToJson(uint8arr)
binaryToJson(rdy, heap, uint8arr, out) ==
  LET m == CallWithBuffer(rdy, heap, uint8arr, "binary_to_json",
                          out.kind = "throws")
  IN  IF m.err # "none" THEN m
      ELSE IF ~IsJsonObject(out.str) THEN Failed("SyntaxError", m.trace, m.live)
      ELSE Returned(Some(JsonParse(out.str)), m.trace, m.live)

\* What binary_blocks_to_json does: it returns the text of an object with
\* the block strings and, per block, its transaction strings or null; or it
\* returns text that is no JSON; or it throws.
BlockStrs == {<<"{", "b", "}">>, <<"{", "c", "}">>, <<"b">>}
TxStrs == {<<",", "x">>, <<",", "x", ",", "y">>, <<"x">>}

BlocksOutcomes ==
  [kind : {"returns"}, blocks : SeqsUpTo(BlockStrs, MaxBlocks),
   txs : SeqsUpTo(Opt(SeqsUpTo(TxStrs, MaxTxsPerBlock)), MaxBlocks)]
    \cup [kind : {"garbage", "throws"}, blocks : {<<>>}, txs : {<<>>}]

\* The text given to JSON.parse for one transaction string.
TxText(tx) == Append(ReplaceFirst(tx, ",", "{"), "}")

\* Faulty variant: blocks for which the provider reported no transactions
\* get no entry in txs.
binaryBlocksToJson_DropsEmpty(rdy, heap, uint8arr, out) ==
  LET m == CallWithBuffer(rdy, heap, uint8arr, "binary_blocks_to_json",
                          out.kind = "throws")
      kept == SelectSeq(out.txs, LAMBDA e : IsDefined(e))
  IN  IF m.err # "none" THEN m
      ELSE IF out.kind = "garbage" THEN Failed("SyntaxError", m.trace, m.live)
      ELSE IF \E i \in 1..Len(out.blocks) : ~IsJsonObject(out.blocks[i])
      THEN Failed("SyntaxError", m.trace, m.live)
      ELSE IF \E i \in 1..Len(kept) : \E j \in 1..Len(kept[i][1]) :
                ~IsJsonObject(TxText(kept[i][1][j]))
      THEN Failed("SyntaxError", m.trace, m.live)
      ELSE Returned(
             Some([blocks |-> [i \in 1..Len(out.blocks) |->
                                 JsonParse(out.blocks[i])],
                   txs |-> [i \in 1..Len(kept) |->
                              [j \in 1..Len(kept[i][1]) |->
                                 JsonParse(TxText(kept[i][1][j]))]]]),
             m.trace, m.live)

\* binaryBlocksToJson(uint8arr)
binaryBlocksToJson(rdy, heap, uint8arr, out) ==
  LET m == CallWithBuffer(rdy, heap, uint8arr, "binary_blocks_to_json",
                          out.kind = "throws")
      TxsOf(i) == IF IsDefined(out.txs[i]) THEN out.txs[i][1] ELSE <<>>
  IN  IF m.err # "none" THEN m
      ELSE IF out.kind = "garbage" THEN Failed("SyntaxError", m.trace, m.live)
      ELSE IF \E i \in 1..Len(out.blocks) : ~IsJsonObject(out.blocks[i])
      THEN Failed("SyntaxError", m.trace, m.live)
      ELSE IF \E i \in 1..Len(out.txs) : \E j \in 1..Len(TxsOf(i)) :
                ~IsJsonObject(TxText(TxsOf(i)[j]))
      THEN Failed("SyntaxError", m.trace, m.live)
      ELSE Returned(
             Some([blocks |-> [i \in 1..Len(out.blocks) |->
                                 JsonParse(out.blocks[i])],
                   txs |-> [i \in 1..Len(out.txs) |->
                              [j \in 1..Len(TxsOf(i)) |->
                                 JsonParse(TxText(TxsOf(i)[j]))]]]),
             m.trace, m.live)

NoCall ==
  [op |-> "none", arg |-> <<>>, given |-> <<>>, err |-> "none",
   ret |-> Undefined, trace |-> <<>>, pre |-> {}]

InitProvider ==
  /\ ready = FALSE
  /\ live = {}
  /\ uop = NoCall

\* Calls are synchronous: the caller makes one when it has taken the
\* result of the one before.
ProviderIdle == uop = NoCall

\* LibraryUtils.loadKeysModule() has completed: the provider is ready.
LoadKeysModule ==
  /\ ProviderIdle
  /\ ~ready
  /\ ready' = TRUE
  /\ UNCHANGED <<live, uop, mergeVars, pidVars, filterVars, daemonVars,
                 extraVars>>

\* The caller takes the result of the call (a value or an error).
ProviderReturn ==
  /\ ~ProviderIdle
  /\ uop' = NoCall
  /\ UNCHANGED <<ready, live, mergeVars, pidVars, filterVars, daemonVars,
                 extraVars>>

\* The call op(arg) with outcome r, the provider having behaved as `given`.
Record(op, arg, given, r) ==
  /\ uop' = [op |-> op, arg |-> arg, given |-> given, err |-> r.err,
             ret |-> r.ret, trace |-> r.trace, pre |-> live]
  /\ live' = r.live
  /\ UNCHANGED <<ready, mergeVars, pidVars, filterVars, daemonVars, extraVars>>

\* The heap has room for the buffer an operation allocates.
HasRoom == Cardinality(live) < MaxAllocs

ValidateAddressCall ==
  /\ ProviderIdle
  /\ \E address \in Addresses, networkType \in NetworkTypeArgs :
       Record("validateAddress",
              [address |-> address, networkType |-> networkType], <<>>,
              validateAddress(ready, live, address, networkType))

IsValidAddressCall ==
  /\ ProviderIdle
  /\ \E address \in Addresses, networkType \in NetworkTypeArgs :
       Record("isValidAddress",
              [address |-> address, networkType |-> networkType], <<>>,
              isValidAddress(ready, live, address, networkType))

JsonToBinaryCall ==
  /\ ProviderIdle
  /\ HasRoom
  /\ \E json \in Jsons, out \in MallocOutcomes :
       Record("jsonToBinary", json, out, jsonToBinary(ready, live, json, out))

BinaryToJsonCall ==
  /\ ProviderIdle
  /\ HasRoom
  /\ \E uint8arr \in Uint8Arrays, out \in ToJsonOutcomes :
       Record("binaryToJson", uint8arr, out,
              binaryToJson(ready, live, uint8arr, out))

BinaryBlocksToJsonCall ==
  /\ ProviderIdle
  /\ HasRoom
  /\ \E uint8arr \in Uint8Arrays, out \in BlocksOutcomes :
       Record("binaryBlocksToJson", uint8arr, out,
              binaryBlocksToJson(ready, live, uint8arr, out))

(***************************************************************************)
(* MoneroDaemon: single-item operations in terms of the batch operations   *)
(***************************************************************************)

\* Number of batch calls explored.
MaxBatchCalls == 3

\* Longest list a batch operation answers with.
MaxBatchResult == 2

\* Values given as a transaction id, key image or block blob: two strings
\* and a value that is no string.
Items ==
  {[type |-> "string", v |-> "a"], [type |-> "string", v |-> "b"],
   [type |-> "undefined", v |-> ""]}

\* The prune argument: omitted, false, true.
PruneArgs == Opt(BOOLEAN)

\* What a subclass's batch operation does: it returns a list or throws.
BatchOutcomes ==
  [kind : {"returns"}, list : SeqsUpTo({"r1", "r2"}, MaxBatchResult)]
    \cup {[kind |-> "throws", list |-> <<>>]}

\* A batch call made: the operation, its list and its prune argument.
BatchCall(op, list, prune) == [op |-> op, list |-> list, prune |-> prune]

\* Default parameter value `prune = false`.
PruneOrDefault(prune) == IF IsDefined(prune) THEN prune[1] ELSE FALSE

\* (await batch(...))[0]
ElementZero(op, call, out) ==
  IF out.kind = "throws"
  THEN [calls |-> <<call>>, ret |-> Undefined, err |-> "BatchError"]
  ELSE [calls |-> <<call>>,
        ret |-> IF Len(out.list) > 0 THEN Some(out.list[1]) ELSE Undefined,
        err |-> "none"]

\* await batch(...)
Awaited(call, out) ==
  [calls |-> <<call>>, ret |-> Undefined,
   err |-> IF out.kind = "throws" THEN "BatchError" ELSE "none"]

\* Faulty variant: prune is true when the caller omits it.
getTx_PrunesByDefault(txId, prune, out) ==
  ElementZero("getTx",
              BatchCall("getTxs", <<txId>>,
                        Some(IF IsDefined(prune) THEN prune[1] ELSE TRUE)),
              out)

\* getTx(txId, prune = false)
getTx(txId, prune, out) ==
  ElementZero("getTx",
              BatchCall("getTxs", <<txId>>, Some(PruneOrDefault(prune))), out)

\* getTxHex(txId, prune = false)
getTxHex(txId, prune, out) ==
  ElementZero("getTxHex",
              BatchCall("getTxHexes", <<txId>>, Some(PruneOrDefault(prune))),
              out)

\* relayTxById(txId)
relayTxById(txId, out) ==
  IF txId.type # "string"
  THEN [calls |-> <<>>, ret |-> Undefined, err |-> "AssertionError"]
  ELSE Awaited(BatchCall("relayTxsById", <<txId>>, Undefined), out)

\* getKeyImageSpentStatus(keyImage)
getKeyImageSpentStatus(keyImage, out) ==
  ElementZero("getKeyImageSpentStatus",
              BatchCall("getKeyImageSpentStatuses", <<keyImage>>, Undefined),
              out)

\* submitBlock(blockBlob)
submitBlock(blockBlob, out) ==
  Awaited(BatchCall("submitBlocks", <<blockBlob>>, Undefined), out)

InitDaemon ==
  /\ dcalls = 0
  /\ dop = [op |-> "none", item |-> <<>>, prune |-> Undefined,
            given |-> <<>>, calls |-> <<>>, ret |-> Undefined,
            err |-> "none"]

\* The call op(item, prune) with outcome r, the batch operation having
\* behaved as out.
DaemonCall(op, item, prune, out, r) ==
  /\ dcalls + Len(r.calls) <= MaxBatchCalls
  /\ dcalls' = dcalls + Len(r.calls)
  /\ dop' = [op |-> op, item |-> Some(item), prune |-> prune, given |-> out,
             calls |-> r.calls, ret |-> r.ret, err |-> r.err]
  /\ UNCHANGED <<mergeVars, pidVars, filterVars, providerVars, extraVars>>

GetTx ==
  \E txId \in Items, prune \in PruneArgs, out \in BatchOutcomes :
    DaemonCall("getTx", txId, prune, out, getTx(txId, prune, out))

GetTxHex ==
  \E txId \in Items, prune \in PruneArgs, out \in BatchOutcomes :
    DaemonCall("getTxHex", txId, prune, out, getTxHex(txId, prune, out))

RelayTxById ==
  \E txId \in Items, out \in BatchOutcomes :
    DaemonCall("relayTxById", txId, Undefined, out, relayTxById(txId, out))

GetKeyImageSpentStatus ==
  \E keyImage \in Items, out \in BatchOutcomes :
    DaemonCall("getKeyImageSpentStatus", keyImage, Undefined, out,
               getKeyImageSpentStatus(keyImage, out))

SubmitBlock ==
  \E blockBlob \in Items, out \in BatchOutcomes :
    DaemonCall("submitBlock", blockBlob, Undefined, out,
               submitBlock(blockBlob, out))

(***************************************************************************)
(* MoneroUtils.getLastTxPubKey                                             *)
(***************************************************************************)

\* Sub-fields in one tx extra.
MaxSubFields == 3

\* Longest payload of a length-prefixed sub-field.
MaxPayload == 1

\* Bytes of a public key.
KeyLen == 32

KeyBytes == {1, 171}
PayloadBytes == {1, 7}

Repeat(b, n) == [i \in 1..n |-> b]

\* Sub-fields: a public key (tag 1 and KeyLen key bytes), or tag 0 or 2, a
\* length byte n and n payload bytes.
PubKeyField(b) == <<1>> \o Repeat(b, KeyLen)
PubKeyFields == {PubKeyField(b) : b \in KeyBytes}
LengthFields ==
  {<<tag, n>> \o Repeat(b, n) :
     tag \in {0, 2}, n \in 0..MaxPayload, b \in PayloadBytes}

\* A byte that is no tag, where a tag is expected.
BadTagFields == {<<7>>}

RECURSIVE Concat(_)
Concat(fields) ==
  IF fields = <<>> THEN <<>> ELSE Head(fields) \o Concat(Tail(fields))

HexDigits ==
  <<"0", "1", "2", "3", "4", "5", "6", "7", "8", "9", "a", "b", "c", "d",
    "e", "f">>

\* Buffer.from(bytes).toString("hex"): two digits per byte.
RECURSIVE Hex(_)
Hex(bytes) ==
  IF bytes = <<>> THEN <<>>
  ELSE <<HexDigits[(Head(bytes) \div 16) + 1],
         HexDigits[(Head(bytes) % 16) + 1]>> \o Hex(Tail(bytes))

\* Array.prototype.slice(start, end) with 0-based start and end.
Slice(arr, start, end) == SubSeq(arr, start + 1, Min(end, Len(arr)))

\* The loop of getLastTxPubKey from 0-based index i on: the index of the
\* last public key found, or the invalid-tag error.  `i += ...` is followed
\* by the loop's `i++`; a length byte read past the end is undefined, which
\* makes i NaN and ends the loop.
RECURSIVE LastPubKeyIdx(_, _, _)
LastPubKeyIdx(txExtra, i, lastPubKeyIdx) ==
  IF ~(i < Len(txExtra)) THEN [idx |-> lastPubKeyIdx, err |-> "none"]
  ELSE LET tag == txExtra[i + 1]
       IN  IF tag = 0 \/ tag = 2
           THEN IF i + 1 < Len(txExtra)
                THEN LastPubKeyIdx(txExtra, i + 1 + txExtra[i + 2] + 1,
                                   lastPubKeyIdx)
                ELSE [idx |-> lastPubKeyIdx, err |-> "none"]
           ELSE IF tag = 1
           THEN LastPubKeyIdx(txExtra, i + 1 + KeyLen + 1, Some(i + 1))
           ELSE [idx |-> lastPubKeyIdx, err |-> "InvalidTag"]

\* getLastTxPubKey(txExtra); slice(undefined, NaN) is slice(0, 0).
getLastTxPubKey(txExtra) ==
  LET r == LastPubKeyIdx(txExtra, 0, Undefined)
  IN  IF r.err # "none" THEN [ret |-> <<>>, err |-> r.err]
      ELSE IF IsDefined(r.idx)
      THEN [ret |-> Hex(Slice(txExtra, r.idx[1], r.idx[1] + KeyLen)),
            err |-> "none"]
      ELSE [ret |-> Hex(Slice(txExtra, 0, 0)), err |-> "none"]

NoExtraCall == [op |-> "none", fields |-> <<>>, ret |-> <<>>, err |-> "none"]

InitExtra == xop = NoExtraCall

\* getLastTxPubKey(txExtra) on the concatenation of sub-fields.
GetLastTxPubKeyCall ==
  /\ xop.op = "none"
  /\ \E fields \in SeqsUpTo(PubKeyFields \cup LengthFields \cup BadTagFields,
                            MaxSubFields) :
       LET r == getLastTxPubKey(Concat(fields))
       IN  xop' = [op |-> "getLastTxPubKey", fields |-> fields,
                   ret |-> r.ret, err |-> r.err]
  /\ UNCHANGED <<mergeVars, pidVars, filterVars, providerVars, daemonVars>>

\* The caller takes the result of the call.
ExtraReturn ==
  /\ xop.op # "none"
  /\ xop' = NoExtraCall
  /\ UNCHANGED <<mergeVars, pidVars, filterVars, providerVars, daemonVars>>

(***************************************************************************)
(* Specifications                                                          *)
(***************************************************************************)

IdlePaymentId ==
  /\ pid1 = <<>>
  /\ pid2 = <<>>
  /\ pidPc = "idle"
  /\ pidResult = FALSE

\* Nothing has been called on the other parts.
Elsewhere(part) ==
  /\ IF part = "merge" THEN TRUE ELSE InitMerge
  /\ IF part = "paymentId" THEN TRUE ELSE IdlePaymentId
  /\ IF part = "filter" THEN TRUE ELSE InitFilter
  /\ IF part = "provider" THEN TRUE ELSE InitProvider
  /\ IF part = "daemon" THEN TRUE ELSE InitDaemon
  /\ IF part = "extra" THEN TRUE ELSE InitExtra

InitSpecMerge == InitMerge /\ Elsewhere("merge")

NextMerge == MergeTxNew \/ MergeTxExisting

SpecMerge == InitSpecMerge /\ [][NextMerge]_vars

InitSpecPaymentId == InitPaymentId /\ Elsewhere("paymentId")

NextPaymentId == PaymentIdsEqualCall

SpecPaymentId == InitSpecPaymentId /\ [][NextPaymentId]_vars

InitSpecFilter == InitFilter /\ Elsewhere("filter")

NextFilter == NewFilter \/ SetTx \/ SetTransferFilter \/ MeetsCriteriaCall

SpecFilter == InitSpecFilter /\ [][NextFilter]_vars

\* The accessors of a filter.
NextSetters ==
  \/ NewFilter
  \/ SetTxIds
  \/ SetHasPaymentId
  \/ SetPaymentIds
  \/ SetHeight
  \/ SetMinHeight
  \/ SetMaxHeight
  \/ SetHasOutgoingTransfer
  \/ SetHasIncomingTransfers
  \/ SetTransferFilter
  \/ SetTx

SpecSetters == InitSpecFilter /\ [][NextSetters]_vars

InitSpecProvider == InitProvider /\ Elsewhere("provider")

NextProvider ==
  \/ LoadKeysModule
  \/ ValidateAddressCall
  \/ IsValidAddressCall
  \/ JsonToBinaryCall
  \/ BinaryToJsonCall
  \/ BinaryBlocksToJsonCall
  \/ ProviderReturn

SpecProvider == InitSpecProvider /\ [][NextProvider]_vars

\* The operations that can fail with one of the listed error kinds.
InitSpecErrors == InitMerge /\ Elsewhere("merge")

NextErrors ==
  \/ MergeTxNew
  \/ MergeTxExisting
  \/ LoadKeysModule
  \/ ValidateAddressCall
  \/ IsValidAddressCall
  \/ ProviderReturn

SpecErrors == InitSpecErrors /\ [][NextErrors]_vars

InitSpecDaemon == InitDaemon /\ Elsewhere("daemon")

NextDaemon ==
  GetTx \/ GetTxHex \/ RelayTxById \/ GetKeyImageSpentStatus \/ SubmitBlock

SpecDaemon == InitSpecDaemon /\ [][NextDaemon]_vars

InitSpecExtra == InitExtra /\ Elsewhere("extra")

NextExtra == GetLastTxPubKeyCall \/ ExtraReturn

SpecExtra == InitSpecExtra /\ [][NextExtra]_vars

(***************************************************************************)
(* Properties of mergeTx                                                   *)
(***************************************************************************)

HasHash(list, h) == \E i \in 1..Len(list) : list[i].hash = h

FirstWithHash(list, h) ==
  CHOOSE i \in 1..Len(list) :
    list[i].hash = h /\ \A j \in 1..(i - 1) : list[j].hash # h

SameObjects(before, after) ==
  /\ Len(after) >= Len(before)
  /\ \A i \in 1..Len(before) : after[i].oid = before[i].oid

\* C1: when the list already holds an entry whose hash equals tx's hash,
\* mergeTx calls merge exactly once, on the first such entry, and does not
\* append: the list keeps its length and the same objects at the same
\* positions, and only that entry is changed (to the result of the merge).
C1_MergesIntoFirstEqualHash ==
  (last.op = "mergeTx" /\ HasHash(last.pre, last.tx[1].hash)) =>
    LET first == FirstWithHash(last.pre, last.tx[1].hash)
    IN  /\ last.merged = <<first>>
        /\ Len(txs) = Len(last.pre)
        /\ SameObjects(last.pre, txs)
        /\ \A i \in 1..Len(txs) : i # first => txs[i] = last.pre[i]
        /\ txs[first] = Merge(last.pre[first], last.tx[1]).tx

\* A merge into the second of two entries that brought it a new fee.
C1_Witness ==
  /\ last.op = "mergeTx"
  /\ Len(last.pre) = 2
  /\ last.merged = <<2>>
  /\ last.err = "none"
  /\ ~IsDefined(last.pre[2].fee)
  /\ IsDefined(txs[2].fee)
  /\ last.tx[1].oid # last.pre[2].oid

\* C2: when no entry has a hash equal to tx's hash (the list may be empty),
\* mergeTx appends tx as the last element: the length grows by one, merge is
\* never called and every earlier entry is unchanged at its position.
C2_AppendsWhenHashIsNew ==
  (last.op = "mergeTx" /\ ~HasHash(last.pre, last.tx[1].hash)) =>
    /\ Len(txs) = Len(last.pre) + 1
    /\ txs[Len(txs)] = last.tx[1]
    /\ \A i \in 1..Len(last.pre) : txs[i] = last.pre[i]
    /\ last.merged = <<>>
    /\ last.err = "none"

\* An append to a list of two entries, one of which has the new tx's fee.
C2_Witness ==
  /\ last.op = "mergeTx"
  /\ Len(last.pre) = 2
  /\ Len(txs) = 3
  /\ ~HasHash(last.pre, last.tx[1].hash)
  /\ \E i \in 1..2 : last.pre[i].fee = last.tx[1].fee

\* The distinct elements of s in the order of their first appearance.
RECURSIVE FirstAppearances(_)
FirstAppearances(s) ==
  IF s = <<>> THEN <<>>
  ELSE LET front == SubSeq(s, 1, Len(s) - 1)
           h == s[Len(s)]
       IN  IF \E i \in 1..Len(front) : front[i] = h
             THEN FirstAppearances(front)
             ELSE Append(FirstAppearances(front), h)

\* C3: after any sequence of mergeTx calls on a list that starts empty, the
\* hash at position i is the i-th distinct hash passed, and the last call
\* neither moved nor removed an entry that was there before it.
C3_OrderOfFirstAppearance ==
  /\ [i \in 1..Len(txs) |-> txs[i].hash] = FirstAppearances(calls)
  /\ last.op = "mergeTx" => SameObjects(last.pre, txs)

\* h2, h1, then h2 again: the list is h2, h1.
C3_Witness ==
  /\ calls = <<Some("h2"), Some("h1"), Some("h2")>>
  /\ Len(txs) = 2
  /\ txs[1].hash = Some("h2")
  /\ txs[2].hash = Some("h1")

(***************************************************************************)
(* Properties of paymentIdsEqual                                           *)
(***************************************************************************)

\* a and b agree on their common length and the rest of the longer is zeros.
ZeroPaddingEquivalent(a, b) ==
  /\ \A i \in 1..Min(Len(a), Len(b)) : a[i] = b[i]
  /\ \A i \in (Len(b) + 1)..Len(a) : a[i] = "0"
  /\ \A i \in (Len(a) + 1)..Len(b) : b[i] = "0"

\* C4: paymentIdsEqual(a, b) is true exactly when a and b agree character by
\* character on their common length and every remaining character of the
\* longer one is '0'; a 16-character id equals itself followed by 48 zeros,
\* and ids that differ in the common prefix are not equal.
C4_ZeroPaddingEquivalence ==
  pidPc = "done" =>
    /\ pidResult <=> ZeroPaddingEquivalent(pid1, pid2)
    /\ (Len(pid1) = 16 /\ pid2 = pid1 \o Zeros(48)) => pidResult
    /\ (\E i \in 1..Min(Len(pid1), Len(pid2)) : pid1[i] # pid2[i]) => ~pidResult

\* The long id of the documentation compared with the short one.
C4_Witness ==
  /\ pidPc = "done"
  /\ pid1 = LongPid
  /\ pid2 = ShortPid
  /\ pidResult

(***************************************************************************)
(* Properties of MoneroTxFilter                                            *)
(***************************************************************************)

\* The filter holds a transaction entity (or nothing) as template and a
\* transfer filter (or nothing) as nested filter.
WellFormed(f) ==
  /\ IsDefined(f.tx) => f.tx[1].class = "MoneroTxWallet"
  /\ IsDefined(f.transferFilter) =>
       f.transferFilter[1].class = "MoneroTransferFilter"

\* meetsCriteria has been called on a well-formed filter with a transaction.
Evaluated ==
  /\ fop.op = "meetsCriteria"
  /\ fop.arg.class = "MoneroTxWallet"
  /\ WellFormed(filter)

Without(f, keys) ==
  [c \in DOMAIN f |-> IF c \in keys THEN Undefined ELSE f[c]]

\* What the filter returns for the candidate with some constraints taken off.
RestAccepts(f) == MeetsCriteria(f, fop.arg).ret

\* C5 as the specification states it: for every field set on the template,
\* a candidate is accepted only if its field is defined and equal to the
\* template's.
C5_EveryTemplateField ==
  (Evaluated /\ IsDefined(filter.tx) /\ fop.ret) =>
    \A fld \in Range(TxFields) :
      IsDefined(filter.tx[1].f[fld]) =>
        /\ IsDefined(fop.arg.f[fld])
        /\ fop.arg.f[fld] = filter.tx[1].f[fld]

\* C5: for each of the fields id, paymentId, isConfirmed, inTxPool,
\* doNotRelay, isRelayed, isFailed and isCoinbase that is set on the
\* template, a candidate is accepted only if its field is defined and equal
\* to the template's; an unset template field, and any other field of the
\* template, imposes no constraint.
C5_ComparedTemplateFields ==
  (Evaluated /\ IsDefined(filter.tx)) =>
    (fop.ret <=>
       /\ \A fld \in Range(ComparedFields) :
            IsDefined(filter.tx[1].f[fld]) =>
              /\ IsDefined(fop.arg.f[fld])
              /\ fop.arg.f[fld] = filter.tx[1].f[fld]
       /\ RestAccepts([filter EXCEPT !.tx = Some(AsEntity(EmptyTx))]))

\* A template with isFailed set that accepts a candidate with the same value.
C5_Witness ==
  /\ Evaluated
  /\ IsDefined(filter.tx)
  /\ IsDefined(filter.tx[1].f.isFailed)
  /\ fop.arg.f.isFailed = filter.tx[1].f.isFailed
  /\ fop.ret

\* Some transfer of the candidate satisfies the nested filter.
SomeTransferMeets(tf, tx) ==
  \/ /\ IsDefined(tx.outgoingTransfer)
     /\ TransferMeetsCriteria(tf, tx.outgoingTransfer[1])
  \/ /\ IsDefined(tx.incomingTransfers)
     /\ \E i \in 1..Len(tx.incomingTransfers[1]) :
          TransferMeetsCriteria(tf, tx.incomingTransfers[1][i])

\* C6: with a nested transfer filter, the candidate is accepted exactly when
\* its outgoing transfer or one of its incoming transfers satisfies the
\* nested filter (and the other clauses accept it); an outgoing transfer
\* that fails does not hide a matching incoming one, and a candidate
\* without transfers is rejected.
C6_NestedTransferClause ==
  (Evaluated /\ IsDefined(filter.transferFilter)) =>
    /\ fop.ret <=>
         /\ SomeTransferMeets(filter.transferFilter[1], fop.arg.f)
         /\ RestAccepts(Without(filter, {"transferFilter"}))
    /\ (~IsDefined(fop.arg.f.outgoingTransfer) /\ ~HasIncoming(fop.arg.f))
         => ~fop.ret

\* The outgoing transfer fails the nested filter, an incoming one meets it.
C6_Witness ==
  /\ Evaluated
  /\ IsDefined(filter.transferFilter)
  /\ IsDefined(fop.arg.f.outgoingTransfer)
  /\ ~TransferMeetsCriteria(filter.transferFilter[1],
                            fop.arg.f.outgoingTransfer[1])
  /\ HasIncoming(fop.arg.f)
  /\ fop.ret

\* A presence constraint: absent, or equal to the candidate's presence.
PresenceHolds(constraint, present) ==
  ~IsDefined(constraint) \/ constraint[1] = present

\* C7: hasPaymentId, hasOutgoingTransfer and hasIncomingTransfers are
\* tri-state: absent, no check; true, the candidate must have the item (for
\* incoming transfers a defined, non-empty list); false, it must not.
C7_PresenceClauses ==
  Evaluated =>
    (fop.ret <=>
       /\ PresenceHolds(filter.hasPaymentId, IsDefined(fop.arg.f.paymentId))
       /\ PresenceHolds(filter.hasOutgoingTransfer,
                        IsDefined(fop.arg.f.outgoingTransfer))
       /\ PresenceHolds(filter.hasIncomingTransfers,
                        /\ IsDefined(fop.arg.f.incomingTransfers)
                        /\ Len(fop.arg.f.incomingTransfers[1]) # 0)
       /\ RestAccepts(Without(filter, {"hasPaymentId", "hasOutgoingTransfer",
                                       "hasIncomingTransfers"})))

\* hasIncomingTransfers = false accepts a candidate with an empty list.
C7_Witness ==
  /\ Evaluated
  /\ filter.hasIncomingTransfers = Some(FALSE)
  /\ fop.arg.f.incomingTransfers = Some(<<>>)
  /\ fop.ret

HeightKeys == {"height", "minHeight", "maxHeight"}

\* C8: a candidate with no block or no header is rejected whenever height,
\* minHeight or maxHeight is set, even minHeight = 0; with a known height h
\* it passes exactly when h = height, h >= minHeight and h <= maxHeight, for
\* those that are set (and the other clauses accept it).
C8_HeightClauses ==
  Evaluated =>
    LET tx == fop.arg.f
        noHeader == ~IsDefined(tx.block) \/ ~IsDefined(tx.block[1].header)
    IN  /\ (noHeader /\ \E k \in HeightKeys : IsDefined(filter[k])) => ~fop.ret
        /\ (~noHeader /\ IsDefined(tx.block[1].header[1].height)) =>
             LET h == tx.block[1].header[1].height[1]
             IN  fop.ret <=>
                   /\ IsDefined(filter.height) => h = filter.height[1]
                   /\ IsDefined(filter.minHeight) => h >= filter.minHeight[1]
                   /\ IsDefined(filter.maxHeight) => h <= filter.maxHeight[1]
                   /\ RestAccepts(Without(filter, HeightKeys))

\* minHeight = 0 rejects a candidate that would pass but for its lack of a
\* block.
C8_Witness ==
  /\ Evaluated
  /\ filter.minHeight = Some(0)
  /\ ~IsDefined(fop.arg.f.block)
  /\ ~fop.ret
  /\ RestAccepts(Without(filter, HeightKeys))

\* The filters that carry a part of the constraints of f and nothing else.
Weakenings(f) ==
  LET keys == {c \in Range(ConstraintKeys) : IsDefined(f[c])}
      flds == IF IsDefined(f.tx)
                THEN {fld \in Range(TxFields) : IsDefined(f.tx[1].f[fld])}
                ELSE {}
  IN  {[c \in DOMAIN f |->
          IF c \in K THEN Undefined
          ELSE IF c = "tx" /\ IsDefined(f.tx)
            THEN Some(AsEntity(Without(f.tx[1].f, T)))
          ELSE f[c]] : K \in SUBSET keys, T \in SUBSET flds}

\* C9: a transaction accepted by a filter is accepted by every filter that
\* carries only a part of its constraints; a filter with no constraint
\* accepts every transaction.
C9_FilterMonotonicity ==
  Evaluated =>
    /\ fop.ret => \A weaker \in Weakenings(filter) : RestAccepts(weaker)
    /\ NumConstraints(filter) = 0 => fop.ret

\* A filter with a template field and a height bound accepts a candidate.
C9_Witness ==
  /\ Evaluated
  /\ IsDefined(filter.tx)
  /\ IsDefined(filter.tx[1].f.isConfirmed)
  /\ IsDefined(filter.minHeight)
  /\ Cardinality(Weakenings(filter)) = 4
  /\ fop.ret

\* The state given to the constructor holds a plain object where a
\* transaction entity or a transfer filter is required.
MalformedState(arg) ==
  \/ IsDefined(arg.tx) /\ arg.tx[1].class # "MoneroTxWallet"
  \/ /\ IsDefined(arg.transferFilter)
     /\ arg.transferFilter[1].class # "MoneroTransferFilter"

\* C10 as the specification states it: construction from malformed state
\* fails with InvalidFilterState.
C10_MalformedStateFailsFast ==
  (fop.op = "new" /\ MalformedState(fop.arg)) => fop.err = "InvalidFilterState"

\* C10: construction from a state whose tx or transferFilter is a plain
\* object does not fail; the constructor converts the object to a
\* MoneroTxWallet or a MoneroTransferFilter with the same fields, so the new
\* filter holds no plain object.  setTx and setTransferFilter store their
\* argument as it is.
C10_ConstructorDeserializes ==
  /\ fop.op = "new" =>
       /\ fop.err = "none"
       /\ WellFormed(filter)
       /\ IsDefined(fop.arg.tx) => filter.tx[1].f = fop.arg.tx[1].f
       /\ IsDefined(fop.arg.transferFilter) =>
            /\ IsDefined(filter.transferFilter)
            /\ filter.transferFilter[1].accountIndex
                 = fop.arg.transferFilter[1].accountIndex
  /\ fop.op = "setTx" => (fop.err = "none" /\ filter.tx = fop.arg)
  /\ fop.op = "setTransferFilter" =>
       (fop.err = "none" /\ filter.transferFilter = fop.arg)

\* A filter built from a plain-object template and a plain-object nested
\* filter.
C10_Witness ==
  /\ fop.op = "new"
  /\ IsDefined(fop.arg.tx)
  /\ fop.arg.tx[1].class = "Object"
  /\ IsDefined(fop.arg.tx[1].f.id)
  /\ IsDefined(fop.arg.transferFilter)
  /\ fop.arg.transferFilter[1].class = "Object"
  /\ WellFormed(filter)

(***************************************************************************)
(* Properties of the provider boundary                                     *)
(***************************************************************************)

ConversionOps == {"jsonToBinary", "binaryToJson", "binaryBlocksToJson"}

\* validateAddress's checks of its arguments, made before it looks for the
\* provider.
ArgumentError(arg) ==
  IF \/ arg.address.type # "string"
     \/ arg.address.chars = <<>>
     \/ \E i \in 1..Len(arg.address.chars) :
          arg.address.chars[i] \notin Base58Alphabet
  THEN "AssertionError"
  ELSE IF arg.networkType \notin {Some(0), Some(1), Some(2)}
  THEN "InvalidNetworkType"
  ELSE "none"

\* C11 as the specification states it: while the provider is not loaded,
\* every call of jsonToBinary, binaryToJson, binaryBlocksToJson and
\* validateAddress fails with the provider-unavailable error, for every
\* input, and makes no call into the provider.
C11_NotReadyIsProviderUnavailable ==
  (~ready /\ uop.op \in ConversionOps \cup {"validateAddress"}) =>
    /\ uop.err = "ProviderUnavailable"
    /\ uop.trace = <<>>

\* C11: while the provider is not loaded, every call of jsonToBinary,
\* binaryToJson and binaryBlocksToJson fails with the provider-unavailable
\* error, and so does validateAddress for arguments that pass its checks;
\* with an argument that fails a check validateAddress fails with that
\* check's error.  No call fails to fail, and none calls into the provider
\* or changes its heap.
C11_NotReadyFailsBeforeTheProvider ==
  (~ready /\ uop.op \in ConversionOps \cup {"validateAddress"}) =>
    /\ uop.err # "none"
    /\ uop.trace = <<>>
    /\ live = uop.pre
    /\ uop.op \in ConversionOps => uop.err = "ProviderUnavailable"
    /\ uop.op = "validateAddress" =>
         uop.err = IF ArgumentError(uop.arg) = "none"
                     THEN "ProviderUnavailable"
                     ELSE ArgumentError(uop.arg)

\* validateAddress of a well-formed address and network type before the
\* provider is loaded.
C11_Witness ==
  /\ ~ready
  /\ uop.op = "validateAddress"
  /\ uop.arg.address = Str(<<"4">>)
  /\ uop.arg.networkType = Some(0)
  /\ uop.err = "ProviderUnavailable"

\* C12: isValidAddress(address, networkType) never throws and returns true
\* exactly when validateAddress(address, networkType) completes without
\* error.
C12_IsValidAddressAgreesWithValidateAddress ==
  uop.op = "isValidAddress" =>
    /\ uop.err = "none"
    /\ uop.ret =
         Some(validateAddress(ready, uop.pre, uop.arg.address,
                              uop.arg.networkType).err = "none")

\* C13: no listed error is swallowed: a failure of merge inside mergeTx
\* reaches mergeTx's caller and tx is not appended, and with the provider
\* not ready validateAddress and isValidAddress fail instead of returning a
\* value.
C13_NoErrorIsSwallowed ==
  /\ (last.op = "mergeTx" /\ last.merged # <<>>) =>
       /\ last.err = Merge(last.pre[last.merged[1]], last.tx[1]).err
       /\ last.err # "none" => Len(txs) = Len(last.pre)
  /\ (~ready /\ uop.op \in {"validateAddress", "isValidAddress"}) =>
       uop.err # "none"

\* The members of a text, in order.
Members(s) == SelectSeq(s, LAMBDA t : t \notin Separators)

\* C16: binaryBlocksToJson returns the parsed blocks in the provider's
\* order, and txs with the length and order of the provider's txs array:
\* one parsed transaction per transaction string, in order, and the empty
\* sequence where the provider reported no transactions.
C16_ParallelOrderPreservingArrays ==
  (uop.op = "binaryBlocksToJson" /\ uop.err = "none") =>
    LET out == uop.given
        res == uop.ret[1]
    IN  /\ Len(res.blocks) = Len(out.blocks)
        /\ \A i \in 1..Len(out.blocks) :
             res.blocks[i].members = Members(out.blocks[i])
        /\ Len(res.txs) = Len(out.txs)
        /\ \A i \in 1..Len(out.txs) :
             IF IsDefined(out.txs[i])
             THEN /\ Len(res.txs[i]) = Len(out.txs[i][1])
                  /\ \A j \in 1..Len(out.txs[i][1]) :
                       res.txs[i][j].members = Members(out.txs[i][1][j])
             ELSE res.txs[i] = <<>>

\* Two different blocks, the first without transactions and the second with
\* two different ones.
C16_Witness ==
  /\ uop.op = "binaryBlocksToJson"
  /\ uop.err = "none"
  /\ Len(uop.given.blocks) = 2
  /\ uop.given.blocks[1] # uop.given.blocks[2]
  /\ uop.given.txs =
       <<Undefined, Some(<<<<",", "x", ",", "y">>, <<",", "x">>>>)>>
  /\ uop.ret[1].txs[1] = <<>>
  /\ Len(uop.ret[1].txs[2]) = 2

AllocCalls == {"_malloc", "malloc_binary_from_json"}

\* Every buffer obtained in the trace is freed exactly once afterwards.
FreedOnce(trace) ==
  \A i \in 1..Len(trace) :
    (trace[i].call \in AllocCalls /\ trace[i].ptr # 0) =>
      Cardinality({j \in (i + 1)..Len(trace) :
                     trace[j] = Ev("_free", trace[i].ptr)}) = 1

\* No buffer is accessed after it has been freed.
NoUseAfterFree(trace) ==
  \A j \in 1..Len(trace) :
    trace[j].call = "_free" =>
      \A k \in (j + 1)..Len(trace) : trace[k].ptr # trace[j].ptr

\* C19: every buffer that jsonToBinary, binaryToJson or binaryBlocksToJson
\* obtains on the provider heap is freed exactly once before the operation
\* finishes, whether it returns or fails; no buffer is used after it has
\* been freed; so no allocation remains outstanding after any sequence of
\* calls.
C19_EveryBufferFreedOnce ==
  /\ live = {}
  /\ uop.op \in ConversionOps =>
       /\ FreedOnce(uop.trace)
       /\ NoUseAfterFree(uop.trace)

(***************************************************************************)
(* Properties of MoneroDaemon's single-item operations                     *)
(***************************************************************************)

BatchOf(op) ==
  CASE op = "getTx" -> "getTxs"
    [] op = "getTxHex" -> "getTxHexes"
    [] op = "relayTxById" -> "relayTxsById"
    [] op = "getKeyImageSpentStatus" -> "getKeyImageSpentStatuses"
    [] op = "submitBlock" -> "submitBlocks"

PruningOps == {"getTx", "getTxHex"}
ValueOps == {"getTx", "getTxHex", "getKeyImageSpentStatus"}

\* The single-item call made exactly one batch call, on the one-element
\* list, with the caller's prune or false, and its outcome is the batch
\* call's: its failure, or element 0 of its result.
IsBatchOfOne(d) ==
  /\ d.calls =
       <<BatchCall(BatchOf(d.op), <<d.item[1]>>,
                   IF d.op \in PruningOps
                     THEN Some(IF IsDefined(d.prune) THEN d.prune[1] ELSE FALSE)
                     ELSE Undefined)>>
  /\ d.given.kind = "throws" => d.err = "BatchError"
  /\ d.given.kind = "returns" =>
       /\ d.err = "none"
       /\ d.ret = IF d.op \in ValueOps /\ d.given.list # <<>>
                    THEN Some(d.given.list[1])
                    ELSE Undefined

\* C14 as the specification states it: each single-item operation makes
\* exactly one batch call on the one-element list and its outcome is that
\* call's.
C14_SingleIsBatchOfOne == dop.op # "none" => IsBatchOfOne(dop)

\* C14: getTx, getTxHex, getKeyImageSpentStatus and submitBlock make exactly
\* one batch call on the one-element list (prune being false when omitted)
\* and return element 0 of its result or fail with its failure; relayTxById
\* does so for an id that is a string, and for any other id fails with an
\* assertion error without making a batch call.
C14_SingleIsBatchOfOneForStringIds ==
  dop.op # "none" =>
    IF dop.op = "relayTxById" /\ dop.item[1].type # "string"
    THEN dop.calls = <<>> /\ dop.err = "AssertionError"
    ELSE IsBatchOfOne(dop)

\* getTx without prune, answered by a list of two.
C14_Witness ==
  /\ dop.op = "getTx"
  /\ dop.prune = Undefined
  /\ dop.calls[1].prune = Some(FALSE)
  /\ dop.given.list = <<"r2", "r1">>
  /\ dop.ret = Some("r2")

(***************************************************************************)
(* Properties of getLastTxPubKey                                           *)
(***************************************************************************)

\* C15: for a tx extra that is a concatenation of well-formed sub-fields,
\* one of them a public key, getLastTxPubKey returns the hex of the key of
\* the last public-key sub-field, also when another sub-field follows it; a
\* byte other than 0, 1 or 2 at a tag position makes it fail with the
\* invalid-tag error.
C15_KeyOfLastPubKeyField ==
  xop.op = "getLastTxPubKey" =>
    LET n == Len(xop.fields)
        bad == {i \in 1..n : xop.fields[i] \in BadTagFields}
        keys == {i \in 1..n : xop.fields[i] \in PubKeyFields}
    IN  IF bad # {} THEN xop.err = "InvalidTag"
        ELSE keys # {} =>
               LET k == CHOOSE i \in keys : \A j \in keys : j <= i
               IN  /\ xop.err = "none"
                   /\ xop.ret = Hex(Tail(xop.fields[k]))

(***************************************************************************)
(* Further properties of MoneroTxFilter and mergeTx                        *)
(***************************************************************************)

MembershipKeys == {"txIds", "paymentIds"}

\* C17: when txIds is set the candidate is accepted only if its id is an
\* element of txIds, and when paymentIds is set only if its payment id is
\* an element of paymentIds; an empty set rejects every candidate and an
\* unset one imposes no constraint (the other clauses accepting it).
C17_SetMembershipClauses ==
  Evaluated =>
    /\ fop.ret <=>
         /\ IsDefined(filter.txIds) => fop.arg.f.id \in filter.txIds[1]
         /\ IsDefined(filter.paymentIds) =>
              fop.arg.f.paymentId \in filter.paymentIds[1]
         /\ RestAccepts(Without(filter, MembershipKeys))
    /\ (filter.txIds = Some({}) \/ filter.paymentIds = Some({})) => ~fop.ret

\* An empty txIds rejects a candidate with an id that the filter accepts
\* without it.
C17_Witness ==
  /\ Evaluated
  /\ filter.txIds = Some({})
  /\ IsDefined(fop.arg.f.id)
  /\ ~fop.ret
  /\ RestAccepts(Without(filter, MembershipKeys))

\* C18: after any sequence of mergeTx calls on a list that starts empty, no
\* two entries have the same hash (undefined counting as a hash), and the
\* length of the list is the number of distinct hashes passed.
C18_NoTwoEntriesShareAHash ==
  /\ \A i, j \in 1..Len(txs) : i # j => txs[i].hash # txs[j].hash
  /\ Len(txs) = Cardinality(Range(calls))

\* Three calls, two of them without a hash, have left two entries.
C18_Witness ==
  /\ Len(calls) = 3
  /\ Cardinality({i \in 1..3 : calls[i] = Undefined}) = 2
  /\ Len(txs) = 2

SetterKey(op) ==
  CASE op = "setTxIds" -> "txIds"
    [] op = "setHasPaymentId" -> "hasPaymentId"
    [] op = "setPaymentIds" -> "paymentIds"
    [] op = "setHeight" -> "height"
    [] op = "setMinHeight" -> "minHeight"
    [] op = "setMaxHeight" -> "maxHeight"
    [] op = "setHasOutgoingTransfer" -> "hasOutgoingTransfer"
    [] op = "setHasIncomingTransfers" -> "hasIncomingTransfers"
    [] op = "setTransferFilter" -> "transferFilter"
    [] op = "setTx" -> "tx"

SetterOps ==
  {"setTxIds", "setHasPaymentId", "setPaymentIds", "setHeight",
   "setMinHeight", "setMaxHeight", "setHasOutgoingTransfer",
   "setHasIncomingTransfers", "setTransferFilter", "setTx"}

\* C20: for every constraint of the filter, its setter called with v
\* completes without error and returns the filter, the matching getter then
\* returns v, and every other constraint is as before the call.
C20_SettersStoreTheirValue ==
  [][fop'.op \in SetterOps =>
       /\ fop'.err = "none"
       /\ fop'.ret = "this"
       /\ Getter(filter', SetterKey(fop'.op)) = fop'.arg
       /\ \A c \in DOMAIN filter \ {SetterKey(fop'.op)} :
            filter'[c] = filter[c]]_vars

====
